---------------------------- MODULE Spec2Model ----------------------------
(***************************************************************************)
(* The binomial option pricer of 13_Binomial_Trees.ipynb as a state        *)
(* machine: the notebook kernel runs one cell at a time; a cell binds      *)
(* module-level names and calls binomial_tree, whose body is executed      *)
(* statement by statement.                                                 *)
(*                                                                         *)
(* Numbers.  A Python float is modelled by an exact rational <<n, d>>      *)
(* with d > 0 in lowest terms, or by one of the three IEEE specials        *)
(* <<1, 0>> (inf), <<-1, 0>> (-inf), <<0, 0>> (nan).  Python's None is     *)
(* the pair <<0, -1>>, outside the numbers.  Rates and volatilities are    *)
(* carried in log units: the rational k stands for k * ln 2, so that       *)
(* np.exp is exact on the integers of the model (np.exp(k) = 2^k).         *)
(*                                                                         *)
(* Four further kernels stand beside it, each with a specification of      *)
(* its own: days_30_360 of 6_Interest_rates_Futures.ipynb (SpecDays),      *)
(* implied_volatility_linear_interpolation of the Black-Scholes-Merton     *)
(* notebook (SpecSolver), binomial_tree set beside Black_Scholes_Merton    *)
(* (SpecConv), and the margin account of                                   *)
(* 2_Mechanics_of_Future_Markets.ipynb (SpecMargin).  The solver and the   *)
(* comparison need the natural exponential, logarithm and normal           *)
(* distribution and are carried in six-decimal fixed point.  SpecCall is   *)
(* one call of binomial_tree with its loops run fairly, for termination.   *)
(***************************************************************************)
EXTENDS Integers, Sequences, FiniteSets, TLC

\* Largest number_of_branch a cell passes to binomial_tree.
MaxSteps == 2

-----------------------------------------------------------------------------
(* Floating-point values                                                   *)

None == <<0, -1>>
NaN == <<0, 0>>
Inf == <<1, 0>>
NegInf == <<-1, 0>>

Abs(n) == IF n < 0 THEN -n ELSE n

RECURSIVE GCD(_, _)
GCD(a, b) == IF b = 0 THEN a ELSE GCD(b, a % b)

\* The rational n/d, d # 0, in lowest terms with a positive denominator.
Norm(n, d) ==
    LET g == GCD(Abs(n), Abs(d))
        s == IF d < 0 THEN -1 ELSE 1
    IN  <<s * (n \div g), s * (d \div g)>>

Whole(n) == <<n, 1>>
Zero == Whole(0)
One == Whole(1)

IsNone(x) == x[2] < 0
IsNaN(x) == x = NaN
IsFinite(x) == x[2] > 0
IsInfinite(x) == x[2] = 0 /\ x[1] # 0
IsNumber(x) == x[2] >= 0
Sign(x) == IF x[1] > 0 THEN 1 ELSE IF x[1] < 0 THEN -1 ELSE 0

FNeg(x) == <<-x[1], x[2]>>

\* IEEE product: nan absorbs, inf * 0 = nan.
FMul(a, b) ==
    IF IsNaN(a) \/ IsNaN(b) THEN NaN
    ELSE IF IsInfinite(a) \/ IsInfinite(b)
         THEN <<Sign(a) * Sign(b), 0>>
         ELSE LET g1 == GCD(Abs(a[1]), b[2])
                  g2 == GCD(Abs(b[1]), a[2])
              IN  Norm((a[1] \div g1) * (b[1] \div g2),
                       (a[2] \div g2) * (b[2] \div g1))

\* IEEE sum: nan absorbs, inf + -inf = nan.
FAdd(a, b) ==
    IF IsNaN(a) \/ IsNaN(b) THEN NaN
    ELSE IF IsInfinite(a) /\ IsInfinite(b)
         THEN (IF a = b THEN a ELSE NaN)
    ELSE IF IsInfinite(a) THEN a
    ELSE IF IsInfinite(b) THEN b
    ELSE LET g == GCD(a[2], b[2])
         IN  Norm(a[1] * (b[2] \div g) + b[1] * (a[2] \div g),
                  (a[2] \div g) * b[2])

FSub(a, b) == FAdd(a, FNeg(b))

\* numpy scalar division: x / 0 is inf, -inf or nan (a warning, no exception).
FDiv(a, b) ==
    IF IsNaN(a) \/ IsNaN(b) THEN NaN
    ELSE IF IsInfinite(b)
         THEN (IF IsInfinite(a) THEN NaN ELSE Zero)
    ELSE IF b = Zero
         THEN <<Sign(a), 0>>
    ELSE IF IsInfinite(a)
         THEN <<Sign(a) * Sign(b), 0>>
    ELSE FMul(a, Norm(b[2], b[1]))

\* a < b; every comparison with nan is false.
FLt(a, b) ==
    IF IsNaN(a) \/ IsNaN(b) THEN FALSE
    ELSE IF a = b THEN FALSE
    ELSE IF IsInfinite(a) THEN a = NegInf
    ELSE IF IsInfinite(b) THEN b = Inf
    ELSE FSub(a, b)[1] < 0

FLe(a, b) == ~IsNaN(a) /\ ~IsNaN(b) /\ (a = b \/ FLt(a, b))

\* Python's max(a, b): b replaces a only when b > a.
PyMax(a, b) == IF FLt(a, b) THEN b ELSE a

\* Python truthiness of a number or None: None and 0 are falsy.
Truthy(x) == ~IsNone(x) /\ x # Zero

RECURSIVE IntPow(_, _)
IntPow(b, k) == IF k = 0 THEN 1 ELSE b * IntPow(b, k - 1)

RECURSIVE FPow(_, _)
FPow(x, k) == IF k = 0 THEN One ELSE FMul(x, FPow(x, k - 1))

\* np.exp on log units: the integer k stands for k * ln 2.
Exp(x) ==
    IF ~IsFinite(x) THEN (IF x = NegInf THEN Zero ELSE x)
    ELSE IF x[1] >= 0 THEN <<IntPow(2, x[1]), 1>>
    ELSE <<1, IntPow(2, -x[1])>>

ISqrt(n) == CHOOSE k \in 0..n : k * k = n

\* np.sqrt: nan (and a warning) below zero; the model feeds it perfect squares.
Sqrt(x) ==
    IF IsNaN(x) \/ x = NegInf THEN NaN
    ELSE IF x = Inf THEN Inf
    ELSE IF x[1] < 0 THEN NaN
    ELSE <<ISqrt(x[1]), ISqrt(x[2])>>

-----------------------------------------------------------------------------
(* Decimal fixed point, for the worked example of lines 84-110: the        *)
(* integer n stands for n / FxScale, and np.exp is the natural one.        *)

FxHalf == 10 * 10 * 10
FxScale == FxHalf * FxHalf

Fx(units, millionths) == units * FxScale + millionths

\* a * b / FxScale to the nearest unit, for a, b >= 0, within 32 bits.
MulFxNat(a, b) ==
    LET ah == a \div FxHalf
        al == a % FxHalf
        bh == b \div FxHalf
        bl == b % FxHalf
        t == ah * bl + al * bh
    IN  ah * bh + (t \div FxHalf)
          + (((t % FxHalf) * FxHalf + al * bl + (FxScale \div 2)) \div FxScale)

MulFx(a, b) ==
    IF (a < 0) = (b < 0) THEN MulFxNat(Abs(a), Abs(b))
    ELSE -MulFxNat(Abs(a), Abs(b))

\* floor(a * FxScale / b) for 0 <= a, 0 < b, both below 2.1 in value.
DivFxNat(a, b) ==
    LET q1 == (a * FxHalf) \div b
        r1 == (a * FxHalf) % b
    IN  q1 * FxHalf + ((r1 * FxHalf) \div b)

DivFx(a, b) ==
    IF (a < 0) = (b < 0) THEN DivFxNat(Abs(a), Abs(b))
    ELSE -DivFxNat(Abs(a), Abs(b))

\* The Taylor series of e^x, summed until the term vanishes.
RECURSIVE ExpSeries(_, _, _)
ExpSeries(x, term, n) ==
    IF term = 0 THEN 0
    ELSE term + ExpSeries(x, MulFx(term, x) \div n, n + 1)

ExpFx(x) == ExpSeries(x, FxScale, 1)

\* np.sqrt on a perfect square.
SqrtFx(x) == FxHalf * (CHOOSE k \in 0..FxHalf : k * k = x)

MaxFx(a, b) == IF b > a THEN b ELSE a

\* Division truncating toward zero.
TruncDiv(a, n) == IF a >= 0 THEN a \div n ELSE -((-a) \div n)

\* The first k decimal digits of r / b, for 0 <= r < b.
RECURSIVE DivDigits(_, _, _)
DivDigits(r, b, k) ==
    IF k = 0 THEN 0
    ELSE ((r * 10) \div b) * IntPow(10, k - 1) + DivDigits((r * 10) % b, b, k - 1)

\* a / b in fixed point by long division, for quotients within 32 bits.
DivWide(a, b) ==
    LET q == (Abs(a) \div Abs(b)) * FxScale + DivDigits(Abs(a) % Abs(b), Abs(b), 6)
    IN  IF (a < 0) = (b < 0) THEN q ELSE -q

\* np.exp beyond the range of the series: e^x = (e^(x/2))^2.
RECURSIVE ExpWide(_)
ExpWide(x) ==
    IF Abs(x) <= FxScale THEN ExpFx(x)
    ELSE LET h == ExpWide(TruncDiv(x, 2)) IN MulFx(h, h)

\* np.sqrt by Newton's iteration from above.
RECURSIVE RootStep(_, _)
RootStep(x, y) ==
    LET y2 == (y + DivWide(x, y)) \div 2
    IN  IF y2 >= y THEN y ELSE RootStep(x, y2)

RootFx(x) == IF x = 0 THEN 0 ELSE RootStep(x, IF x < FxScale THEN FxScale ELSE x)

\* np.log: ln x = 2 atanh((x - 1) / (x + 1)), summed until the term vanishes.
RECURSIVE LnSeries(_, _, _)
LnSeries(term, z2, k) ==
    IF term = 0 THEN 0
    ELSE TruncDiv(term, k) + LnSeries(MulFx(term, z2), z2, k + 2)

LnFx(x) ==
    LET z == DivWide(x - FxScale, x + FxScale)
    IN  2 * LnSeries(z, MulFx(z, z), 1)

\* stats.norm.cdf to seven decimals (Abramowitz and Stegun 26.2.17):
\* 1 - pdf(x) * (b1 t + ... + b5 t^5), t = 1 / (1 + 0.2316419 x), x >= 0.
CdfCoefficients ==
    <<Fx(0, 319382), -Fx(0, 356564), Fx(1, 781478), -Fx(1, 821256), Fx(1, 330274)>>

RECURSIVE CdfHorner(_, _)
CdfHorner(t, k) ==
    IF k > 5 THEN 0 ELSE MulFx(t, CdfCoefficients[k] + CdfHorner(t, k + 1))

RECURSIVE NormCdf(_)
NormCdf(x) ==
    IF x < 0 THEN FxScale - NormCdf(-x)
    ELSE IF x >= 6 * FxScale THEN FxScale
    ELSE LET t == DivWide(FxScale, FxScale + MulFx(Fx(0, 231642), x))
             pdf == MulFx(Fx(0, 398942), ExpWide((-MulFx(x, x)) \div 2))
         IN  FxScale - MulFx(pdf, CdfHorner(t, 1))

\* The quotient of d1, kept within ten standard deviations, where
\* stats.norm.cdf is 0 or 1 to the last digit kept.
Standardized(num, den) ==
    IF Abs(num) \div Abs(den) >= 10
    THEN (IF (num < 0) = (den < 0) THEN 10 * FxScale ELSE -(10 * FxScale))
    ELSE DivWide(num, den)

-----------------------------------------------------------------------------
(* The statements of binomial_tree, one operator per source line           *)

\* Line 148: the guard reads the module-level name u_d, not up or down.
GuardRejects(ud, sigma) ==
    (~Truthy(ud) /\ ~Truthy(sigma)) \/ (Truthy(ud) /\ Truthy(sigma))

\* Line 153.
TimeStep(maturity, number_of_branch) ==
    FDiv(maturity, Whole(number_of_branch))

\* Lines 155-160: the factors come from sigma when it is truthy, else from
\* up and down.
UpFactor(sigma, up, dt) ==
    IF Truthy(sigma) THEN Exp(FMul(sigma, Sqrt(dt))) ELSE FAdd(One, up)

DownFactor(sigma, down, dt) ==
    IF Truthy(sigma) THEN Exp(FMul(FNeg(sigma), Sqrt(dt))) ELSE FSub(One, down)

RiskNeutralP_NoGrowth(risk_free, dt, u, d) ==
    FDiv(FSub(One, d), FSub(u, d))

\* Line 162.
RiskNeutralP(risk_free, dt, u, d) ==
    FDiv(FSub(Exp(FMul(risk_free, dt)), d), FSub(u, d))

Discount_Compounds(risk_free, dt) == Exp(FMul(risk_free, dt))

\* Line 183: np.exp(-risk_free * dt).
Discount(risk_free, dt) == Exp(FMul(FNeg(risk_free), dt))

\* Lines 165, 173: np.zeros.
Zeros1(n) == [k \in 0..n |-> Zero]
Zeros2(n) == [k \in 0..n |-> Zeros1(n)]

\* Line 168.
NodeUp(above, u) == FMul(above, u)

NodeDown_Divides(diag, d) == FDiv(diag, d)

\* Line 170.
NodeDown(diag, d) == FMul(diag, d)

\* The option types a cell may pass, letter by letter.
Spelling ==
    "call" :> <<"c", "a", "l", "l">> @@ "Call" :> <<"C", "a", "l", "l">> @@
    "CALL" :> <<"C", "A", "L", "L">> @@ "put" :> <<"p", "u", "t">> @@
    "Put" :> <<"P", "u", "t">> @@ "PUT" :> <<"P", "U", "T">> @@
    "straddle" :> <<"s", "t", "r", "a", "d", "d", "l", "e">> @@ "" :> <<>>

\* str.lower, on the letters above.
LowerChar(c) ==
    CASE c = "A" -> "a" [] c = "C" -> "c" [] c = "L" -> "l"
      [] c = "P" -> "p" [] c = "T" -> "t" [] c = "U" -> "u"
      [] OTHER -> c

Lower(text) ==
    LET lowered == [k \in DOMAIN Spelling[text] |-> LowerChar(Spelling[text][k])]
    IN  CHOOSE w \in DOMAIN Spelling : Spelling[w] = lowered

Payoff_ExactCase(option_type, S, strike) ==
    IF option_type = "call" THEN PyMax(Zero, FSub(S, strike))
    ELSE IF option_type = "put" THEN PyMax(Zero, FSub(strike, S))
    ELSE Zero

\* Lines 175-178: any other option_type leaves the zero of np.zeros.
Payoff(option_type, S, strike) ==
    IF Lower(option_type) = "call" THEN PyMax(Zero, FSub(S, strike))
    ELSE IF Lower(option_type) = "put" THEN PyMax(Zero, FSub(strike, S))
    ELSE Zero

Continuation_Swapped(p, vUp, vDown, disc) ==
    FMul(FAdd(FMul(p, vDown), FMul(FSub(One, p), vUp)), disc)

Continuation_NoDiscount(p, vUp, vDown, disc) ==
    FAdd(FMul(p, vUp), FMul(FSub(One, p), vDown))

\* Line 183.
Continuation(p, vUp, vDown, disc) ==
    FMul(FAdd(FMul(p, vUp), FMul(FSub(One, p), vDown)), disc)

-----------------------------------------------------------------------------
(* What a cell may pass to binomial_tree                                   *)

\* (sigma, up, down) of the calls that supply exactly one of the two forms.
VolSpecs ==
    { <<None, Whole(2), Norm(1, 2)>>,
      <<None, Norm(1, 2), Norm(1, 2)>>,
      <<Whole(2), None, None>> }

MkArgs(ty, s, k, r, m, n, v, am) ==
    [option_type |-> ty, spot |-> s, strike |-> k, risk_free |-> r,
     maturity |-> m, number_of_branch |-> n,
     sigma |-> v[1], up |-> v[2], down |-> v[3], american |-> am]

\* Calls on a unit time step (maturity = number_of_branch).
CoreCalls ==
    { MkArgs(ty, Whole(4), k, r, Whole(n), n, v, FALSE) :
        ty \in {"call", "put"}, k \in {Whole(3), Whole(6)},
        r \in {Zero, One}, n \in 1..MaxSteps, v \in VolSpecs }

\* <<spot, strike, maturity, number_of_branch, (sigma, up, down), american>>:
\* both forms, neither, up = down = 0, inputs outside the documented domain,
\* a four-year single step, a request for early exercise, and a down move of
\* more than the whole price.
EdgeCases ==
    { <<Whole(4), Whole(3), Whole(1), 1, <<Whole(1), Whole(1), Norm(1, 2)>>, FALSE>>,
      <<Whole(4), Whole(3), Whole(1), 1, <<None, None, None>>, FALSE>>,
      <<Whole(4), Whole(3), Whole(1), 1, <<None, Zero, Zero>>, FALSE>>,
      <<Whole(-4), Whole(3), Whole(1), 1, <<None, Whole(2), Norm(1, 2)>>, FALSE>>,
      <<Whole(4), Whole(-3), Whole(1), 1, <<None, Whole(2), Norm(1, 2)>>, FALSE>>,
      <<Whole(4), Whole(3), Zero, 1, <<None, Whole(2), Norm(1, 2)>>, FALSE>>,
      <<Whole(4), Whole(3), Whole(-1), 1, <<None, Whole(2), Norm(1, 2)>>, FALSE>>,
      <<Whole(4), Whole(3), Whole(-1), 1, <<Whole(2), None, None>>, FALSE>>,
      <<Whole(4), Whole(3), Whole(1), 0, <<None, Whole(2), Norm(1, 2)>>, FALSE>>,
      <<Whole(4), Whole(3), Whole(4), 1, <<Whole(1), None, None>>, FALSE>>,
      <<Whole(4), Whole(6), Whole(2), 2, <<Whole(2), None, None>>, TRUE>>,
      <<Whole(4), Whole(1), Whole(1), 1, <<None, Whole(2), Whole(3)>>, FALSE>> }

EdgeCalls ==
    { MkArgs(ty, e[1], e[2], One, e[3], e[4], e[5], e[6]) :
        ty \in {"call", "put"}, e \in EdgeCases }

\* Two-step calls that write the option type in other cases, or name a type
\* the function does not know.
TypeCalls ==
    { MkArgs(ty, Whole(4), Whole(3), One, Whole(2), 2,
             <<None, Whole(2), Norm(1, 2)>>, FALSE) :
        ty \in {"Call", "CALL", "Put", "PUT", "straddle"} }

Calls == CoreCalls \cup EdgeCalls \cup TypeCalls

NoArgs == MkArgs("", Zero, Zero, Zero, Zero, 0, <<None, None, None>>, FALSE)

\* The outcome of a call: a returned float, a returned None, or an exception.
Pending == [kind |-> "pending", val |-> None]
Returned(v) == [kind |-> "value", val |-> v]
ReturnedNone == [kind |-> "None", val |-> None]
Raised(e) == [kind |-> e, val |-> None]

GuardMessage == "You should either put u_d or sigma"
ParityMessage == "Call-Put Parity is respected"

-----------------------------------------------------------------------------
(* The worked example "Pricing an american put", lines 84-110              *)

ExSpot == Fx(50, 0)
ExStrike == Fx(52, 0)
ExRf == Fx(0, 50000)
ExVol == Fx(0, 300000)
ExDt == Fx(1, 0)

\* Lines 95-96.
ExUp(vol, t) == ExpFx(MulFx(vol, SqrtFx(t)))
ExDown(vol, t) == ExpFx(MulFx(-vol, SqrtFx(t)))

ExP_NoGrowth(rf, t, up, down) == DivFx(FxScale - down, up - down)

\* Line 98.
ExP(rf, t, up, down) == DivFx(ExpFx(MulFx(rf, t)) - down, up - down)

\* Line 106: max(strike - S, 0).
ExPutPayoff(strike, S) == MaxFx(strike - S, 0)

\* Lines 107-108: p * a + (1 - p) * b.
ExExpectation(prob, a, b) == MulFx(prob, a) + MulFx(FxScale - prob, b)

NoExample ==
    [ran |-> FALSE, u |-> 0, d |-> 0, p |-> 0,
     first_branch |-> <<0, 0>>, second_branch |-> <<0, 0, 0, 0>>,
     put_value_b2 |-> <<0, 0, 0, 0>>, put_value_b1 |-> <<0, 0>>,
     put_value_b0 |-> 0]

\* The module-level names the cell binds, lines 88-108.
ExampleCell ==
    LET eu == ExUp(ExVol, ExDt)
        ed == ExDown(ExVol, ExDt)
        ep == ExP(ExRf, ExDt, eu, ed)
        fb == <<MulFx(ExSpot, eu), MulFx(ExSpot, ed)>>
        sb == <<MulFx(fb[1], eu), MulFx(fb[1], ed), MulFx(fb[2], eu), MulFx(fb[2], ed)>>
        b2 == [k \in 1..4 |-> ExPutPayoff(ExStrike, sb[k])]
        b1 == <<ExExpectation(ep, b2[1], b2[2]), ExExpectation(ep, b2[3], b2[4])>>
    IN  [ran |-> TRUE, u |-> eu, d |-> ed, p |-> ep,
         first_branch |-> fb, second_branch |-> sb,
         put_value_b2 |-> b2, put_value_b1 |-> b1,
         put_value_b0 |-> ExExpectation(ep, b1[1], b1[2])]

-----------------------------------------------------------------------------
(* 6_Interest_rates_Futures.ipynb: the 30/360 day count, lines 101-126     *)

\* The dates passed to days_30_360 span FirstYear..FirstYear + MaxYearSpan.
MaxYearSpan == 2

\* The year of the notebook's earliest example date (line 157).
FirstYear == 2018

Digits == <<"0", "1", "2", "3", "4", "5", "6", "7", "8", "9">>
Char(k) == Digits[k + 1]
Digit(c) == CHOOSE k \in 0..9 : Digits[k + 1] = c

\* The notebook writes its dates as ISO strings, "2020-03-01" (lines 70-73).
IsoString(t) ==
    <<Char(t[1] \div 1000), Char((t[1] \div 100) % 10), Char((t[1] \div 10) % 10),
      Char(t[1] % 10), "-", Char(t[2] \div 10), Char(t[2] % 10), "-",
      Char(t[3] \div 10), Char(t[3] % 10)>>

\* <<year, month, day>> of the strings a cell may pass; some name no day of
\* the calendar (February 30th).
DateTriples ==
    { <<y, m, dd>> : y \in FirstYear..(FirstYear + MaxYearSpan),
                     m \in {2, 3, 7, 8, 9, 12}, dd \in {1, 28, 29, 30, 31} }

DateStrings == { IsoString(t) : t \in DateTriples }

IsLeap(y) == (y % 4 = 0 /\ y % 100 # 0) \/ y % 400 = 0

DaysInMonth(y, m) ==
    IF m = 2 THEN (IF IsLeap(y) THEN 29 ELSE 28)
    ELSE IF m \in {4, 6, 9, 11} THEN 30 ELSE 31

OnCalendar(t) ==
    /\ t[2] \in 1..12
    /\ t[3] \in 1..DaysInMonth(t[1], t[2])

\* The fields pd.to_datetime reads from an ISO string.
ParseIso(s) ==
    <<1000 * Digit(s[1]) + 100 * Digit(s[2]) + 10 * Digit(s[3]) + Digit(s[4]),
      10 * Digit(s[6]) + Digit(s[7]),
      10 * Digit(s[9]) + Digit(s[10])>>

NoDate == [year |-> 0, month |-> 0, day |-> 0]

\* Lines 113-114: pd.to_datetime gives a Timestamp, or raises ValueError for
\* a string that names no day of the calendar.
ToDatetime(s) ==
    LET t == ParseIso(s)
    IN  IF OnCalendar(t) THEN [year |-> t[1], month |-> t[2], day |-> t[3]]
        ELSE NoDate

AdjustDay_Unclamped(day) == day

\* Lines 118-119: min(30, day).
AdjustDay(day) == IF day < 30 THEN day ELSE 30

DayCount_AbsoluteDays(start_date, end_date, start_day, end_day) ==
    LET year_diff == end_date.year - start_date.year
        month_diff == end_date.month - start_date.month
        day_diff == Abs(end_day - start_day)
    IN  360 * year_diff + 30 * month_diff + day_diff

DayCount_DaysReversed(start_date, end_date, start_day, end_day) ==
    LET year_diff == end_date.year - start_date.year
        month_diff == end_date.month - start_date.month
        day_diff == start_day - end_day
    IN  360 * year_diff + 30 * month_diff + day_diff

\* Lines 122-126.
DayCount(start_date, end_date, start_day, end_day) ==
    LET year_diff == end_date.year - start_date.year
        month_diff == end_date.month - start_date.month
        day_diff == end_day - start_day
    IN  360 * year_diff + 30 * month_diff + day_diff

\* Lines 101-126 as one function of two dates of the calendar.
days_30_360(start_date, end_date) ==
    LET sd == ToDatetime(start_date)
        ed == ToDatetime(end_date)
    IN  DayCount(sd, ed, AdjustDay(sd.day), AdjustDay(ed.day))

\* Line 132: accrued_period / total_period; dividing by 0 raises
\* ZeroDivisionError and gives no number.
AccruedFraction(accrued_period, total_period) ==
    IF total_period = 0 THEN None ELSE Norm(accrued_period, total_period)

NoDayCount ==
    [pc |-> "idle", start_arg |-> <<>>, end_arg |-> <<>>,
     start_date |-> NoDate, end_date |-> NoDate,
     start_day |-> 0, end_day |-> 0,
     result |-> [kind |-> "pending", val |-> 0]]

-----------------------------------------------------------------------------
(* README.md of the equities notebooks: Black_Scholes_Merton, lines        *)
(* 146-183, and implied_volatility_linear_interpolation, lines 423-491,    *)
(* in fixed point                                                          *)

\* Largest max_iterations a cell passes to the solver.
MaxIterations == 3

\* Lines 171-183: <<call_price, put_price>>.
Black_Scholes_Merton(spot, strike, maturity, risk_free_rate, volatility) ==
    LET spread == MulFx(volatility, RootFx(maturity))
        drift == MulFx(risk_free_rate
                         + MulFx(FxScale \div 2, MulFx(volatility, volatility)),
                       maturity)
        d1 == Standardized(LnFx(DivWide(spot, strike)) + drift, spread)
        d2 == d1 - spread
        discounted == MulFx(strike, ExpWide(-MulFx(risk_free_rate, maturity)))
    IN  <<MulFx(spot, NormCdf(d1)) - MulFx(discounted, NormCdf(d2)),
          MulFx(discounted, NormCdf(-d2)) - MulFx(spot, NormCdf(-d1))>>

SelectPrice_AlwaysCall(type, prices) == prices[1]

\* Lines 456-461 and 472-475: the price of the requested type; the names
\* stay unbound for any other type.
SelectPrice(type, prices) == IF type = "call" THEN prices[1] ELSE prices[2]

\* Line 467.
Interpolate(market_price, vol_min, vol_max, option_price_min, option_price_max) ==
    vol_min + DivWide(MulFx(market_price - option_price_min, vol_max - vol_min),
                      option_price_max - option_price_min)

\* Line 478.
Converged(option_price_mid, market_price, convergence_threshold) ==
    Abs(option_price_mid - market_price) < convergence_threshold

\* Lines 493-500: the call of the notebook (market price 2.5), and calls
\* with other market prices, types, thresholds and iteration caps.  The
\* thresholds are ones the six decimals kept can resolve.
SolverCalls ==
    { [market_price |-> m, type |-> ty, spot |-> Fx(15, 0), strike |-> Fx(13, 0),
       maturity |-> Fx(0, 250000), risk_free_rate |-> Fx(0, 50000),
       convergence_threshold |-> th, max_iterations |-> n] :
        m \in {Fx(2, 0), Fx(2, 500000), Fx(3, 0)},
        ty \in {"call", "put", "Call"},
        th \in {Fx(0, 50000), Fx(0, 300000)},
        n \in 0..MaxIterations }

NoSolverArgs ==
    [market_price |-> 0, type |-> "", spot |-> 0, strike |-> 0, maturity |-> 0,
     risk_free_rate |-> 0, convergence_threshold |-> 0, max_iterations |-> 0]

\* The frame of implied_volatility_linear_interpolation: `bound` holds the
\* local names an assignment has bound so far.
NoSolve ==
    [pc |-> "idle", args |-> NoSolverArgs, bound |-> {},
     vol_min |-> 0, vol_max |-> 0, iteration |-> 0,
     price_min |-> <<0, 0>>, price_max |-> <<0, 0>>,
     option_price_min |-> 0, option_price_max |-> 0,
     vol_mid |-> 0, option_price_mid |-> 0,
     result |-> [kind |-> "pending", val |-> 0], out |-> <<>>]

-----------------------------------------------------------------------------
(* binomial_tree on a volatility lattice in fixed point, with the natural  *)
(* exponential, to set its prices beside Black_Scholes_Merton              *)

\* Lattices of 1..MaxConvSteps steps are set beside the closed form.
MaxConvSteps == 4

\* Line 153.
TimeStepFx(maturity, number_of_branch) == DivWide(maturity, number_of_branch * FxScale)

UpFactorFx_NoRoot(sigma, dt) == ExpWide(MulFx(sigma, dt))

\* Lines 156-157.
UpFactorFx(sigma, dt) == ExpWide(MulFx(sigma, RootFx(dt)))
DownFactorFx(sigma, dt) == ExpWide(MulFx(-sigma, RootFx(dt)))

\* Line 162.
RiskNeutralPFx(risk_free, dt, up, down) ==
    DivWide(ExpWide(MulFx(risk_free, dt)) - down, up - down)

\* Lines 166-170: tree[r][c].
RECURSIVE NodeFx(_, _, _, _, _)
NodeFx(spot, up, down, r, c) ==
    IF r = 0 THEN spot
    ELSE IF c = 0 THEN MulFx(NodeFx(spot, up, down, r - 1, 0), up)
    ELSE MulFx(NodeFx(spot, up, down, r - 1, c - 1), down)

\* Lines 175-178.
PayoffFx(option_type, S, strike) ==
    IF Lower(option_type) = "call" THEN MaxFx(S - strike, 0)
    ELSE IF Lower(option_type) = "put" THEN MaxFx(strike - S, 0)
    ELSE 0

\* Lines 181-183: option_values[c] once row r has been processed, from the
\* terminal payoffs.
RECURSIVE ValueFx(_, _, _, _, _)
ValueFx(terminal, prob, discount, r, c) ==
    IF r = Len(terminal) - 1 THEN terminal[c + 1]
    ELSE MulFx(MulFx(prob, ValueFx(terminal, prob, discount, r + 1, c))
                 + MulFx(FxScale - prob, ValueFx(terminal, prob, discount, r + 1, c + 1)),
               discount)

\* Lines 146-185 for a call that supplies sigma alone: None when the guard
\* of line 148 rejects it, else option_values[0].
BinomialTreeFx(ud, a) ==
    IF GuardRejects(ud, Whole(a.sigma)) THEN [kind |-> "None", val |-> 0]
    ELSE LET n == a.number_of_branch
             t == TimeStepFx(a.maturity, n)
             up == UpFactorFx(a.sigma, t)
             down == DownFactorFx(a.sigma, t)
             prob == RiskNeutralPFx(a.risk_free, t, up, down)
             terminal == [c \in 1..(n + 1) |->
                            PayoffFx(a.option_type,
                                     NodeFx(a.spot, up, down, n, c - 1), a.strike)]
         IN  [kind |-> "value",
              val |-> ValueFx(terminal, prob, ExpWide(MulFx(-a.risk_free, t)), 0, 0)]

\* Parameter sets priced by both models; number_of_branch is set per call.
ConvergenceCalls ==
    { [option_type |-> ty, spot |-> Fx(15, 0), strike |-> k, risk_free |-> r,
       maturity |-> Fx(0, 250000), number_of_branch |-> 0, sigma |-> v] :
        ty \in {"call", "put"}, k \in {Fx(13, 0), Fx(15, 0), Fx(17, 0)},
        r \in {0, Fx(0, 50000)}, v \in {Fx(0, 300000), Fx(0, 400000)} }

NoComparison ==
    [pc |-> "idle",
     args |-> [option_type |-> "", spot |-> 0, strike |-> 0, risk_free |-> 0,
               maturity |-> 0, number_of_branch |-> 0, sigma |-> 0],
     black_scholes |-> 0, binomial |-> <<>>]

-----------------------------------------------------------------------------
(* 2_Mechanics_of_Future_Markets.ipynb: the margin account of a long         *)
(* position in gold futures, cells of lines 59-67, 89-94 and 118-131.  Money *)
(* is in whole dollars; 0.75 * initial_deposit is kept as an exact fraction. *)

MaxContracts == 2

\* The prices a reader may write on lines 89 and 122 (1741 and 1730 in the
\* notebook), either side of the price at which the balance meets the
\* maintenance margin.
Day2Prices == {1700, 1735, 1741, 1750, 1760}
Day3Prices == {1690, 1730, 1735, 1741, 1760}

\* Line 64.
PositionTaken(bought_contracts, futures_price_day1, contract_size) ==
    bought_contracts * futures_price_day1 * contract_size

\* Line 65.
InitialDeposit(bought_contracts, initial_margin) ==
    bought_contracts * initial_margin

WinOrLoss_FromDay1(today, before, day1, bought_contracts, contract_size) ==
    (today - day1) * bought_contracts * contract_size

\* Lines 90 and 123: the price of the day, the price of the day before and
\* the price of day 1.
WinOrLoss(today, before, day1, bought_contracts, contract_size) ==
    (today - before) * bought_contracts * contract_size

\* Line 118: 0.75 * initial_deposit.
MaintenanceMargin(initial_deposit) == Norm(3 * initial_deposit, 4)

BelowMaintenance_OrEqual(margin_deposit, maintenance_margin) ==
    FLe(Whole(margin_deposit), maintenance_margin)

\* Line 129.
BelowMaintenance(margin_deposit, maintenance_margin) ==
    FLt(Whole(margin_deposit), maintenance_margin)

\* Line 130.
CashToAdd(initial_deposit, margin_deposit) == initial_deposit - margin_deposit

\* A fresh kernel: no name is bound.
NoMargin ==
    [pc |-> "day1", bound |-> {}, bought_contracts |-> 0, futures_price_day1 |-> 0,
     contract_size |-> 0, initial_margin |-> 0, position_taken |-> 0,
     initial_deposit |-> 0, futures_price_day2 |-> 0, futures_price_day3 |-> 0,
     win_or_loss |-> 0, margin_deposit |-> 0, maintenance_margin |-> Zero,
     cash_to_add |-> 0, out |-> <<>>]

-----------------------------------------------------------------------------
VARIABLES
    u_d,            \* the module-level name u_d (line 139)
    call_price,     \* the module-level name call_price (line 188), with the
                    \* arguments of the call that produced it
    pc,             \* where the running cell stands
    args,           \* the arguments of the call in progress
    dt, u, d, p,    \* locals of binomial_tree
    tree,           \* the lattice, tree[i][j]
    option_values,  \* the value array
    i, j,           \* loop counters
    result,         \* the outcome of the call
    out,            \* what the running cell has printed
    visits,         \* history: the array accesses the loops of the call have made
    ex,             \* the module-level names of the worked example
    dc,             \* 6_Interest_rates_Futures.ipynb: a call of days_30_360
    iv,             \* README.md: a call of implied_volatility_linear_interpolation
    cv,             \* a comparison of binomial_tree with Black_Scholes_Merton
    mg              \* 2_Mechanics_of_Future_Markets.ipynb: the margin example

vars == <<u_d, call_price, pc, args, dt, u, d, p, tree, option_values, i, j,
          result, out, visits, ex, dc, iv, cv, mg>>

\* The kernel of 13_Binomial_Trees.ipynb, and the kernels of the other
\* notebooks.
binomialKernel == <<u_d, call_price, pc, args, dt, u, d, p, tree, option_values,
                    i, j, result, out, visits, ex>>
elsewhere == <<dc, iv, cv, mg>>

locals == <<dt, u, d, p, tree, option_values, i, j, visits>>

NoPrice == [set |-> FALSE, args |-> NoArgs, result |-> Pending]

\* No loop has run: lattice holds one entry per execution of line 168 or
\* 170 (the position written and the position read), induction one entry per
\* execution of line 183 (the row, the position and the higher index read).
NoVisits == [lattice |-> <<>>, induction |-> <<>>]

NoLocals ==
    /\ dt' = Zero /\ u' = Zero /\ d' = Zero /\ p' = Zero
    /\ tree' = Zeros2(-1) /\ option_values' = Zeros1(-1)
    /\ i' = 0 /\ j' = 0
    /\ visits' = NoVisits

N == args.number_of_branch

Init ==
    /\ u_d = Norm(1, 10)
    /\ call_price = NoPrice
    /\ pc = "idle"
    /\ args = NoArgs
    /\ dt = Zero /\ u = Zero /\ d = Zero /\ p = Zero
    /\ tree = Zeros2(-1) /\ option_values = Zeros1(-1)
    /\ i = 0 /\ j = 0
    /\ visits = NoVisits
    /\ result = Pending
    /\ out = <<>>
    /\ ex = NoExample
    /\ dc = NoDayCount
    /\ iv = NoSolve
    /\ cv = NoComparison
    /\ mg = NoMargin

\* Lines 84-110: the kernel runs the worked example; its four prints are the
\* cell's output.
RunExample ==
    /\ pc = "idle"
    /\ ex' = ExampleCell
    /\ out' = <<"Parameter p", "First branch", "Second branch", "The put value at t0">>
    /\ UNCHANGED <<u_d, call_price, pc, args, locals, result>>
    /\ UNCHANGED elsewhere

\* A cell rebinds the module-level name u_d (line 139 binds it to 0.1).
RebindUD ==
    /\ pc = "idle"
    /\ \E v \in {Norm(1, 10), Zero} : v # u_d /\ u_d' = v
    /\ UNCHANGED <<ex, call_price, pc, args, locals, result, out>>
    /\ UNCHANGED elsewhere

\* Lines 188, 211: a cell calls binomial_tree.  The signature of line 146
\* has no parameter american: passing it raises TypeError at the call.
Call ==
    /\ pc = "idle"
    /\ \E a \in Calls :
        /\ args' = a
        /\ IF a.american
           THEN pc' = "done" /\ result' = Raised("TypeError")
           ELSE pc' = "guard" /\ result' = Pending
    /\ out' = <<>>
    /\ UNCHANGED <<ex, u_d, call_price, locals>>
    /\ UNCHANGED elsewhere

\* Lines 148-150.
Guard ==
    /\ pc = "guard"
    /\ IF GuardRejects(u_d, args.sigma)
       THEN /\ out' = Append(out, GuardMessage)
            /\ result' = ReturnedNone
            /\ pc' = "done"
       ELSE /\ pc' = "params"
            /\ UNCHANGED <<out, result>>
    /\ UNCHANGED <<ex, u_d, call_price, args, locals>>
    /\ UNCHANGED elsewhere

\* Lines 153-162.  Python raises ZeroDivisionError for maturity / 0 and
\* TypeError for 1 + None; numpy divides by zero without raising.
Params ==
    /\ pc = "params"
    /\ IF N = 0
       THEN /\ result' = Raised("ZeroDivisionError") /\ pc' = "done"
            /\ UNCHANGED <<dt, u, d, p>>
       ELSE IF ~Truthy(args.sigma) /\ (IsNone(args.up) \/ IsNone(args.down))
       THEN /\ result' = Raised("TypeError") /\ pc' = "done"
            /\ dt' = TimeStep(args.maturity, N)
            /\ UNCHANGED <<u, d, p>>
       ELSE LET t == TimeStep(args.maturity, N)
                uu == UpFactor(args.sigma, args.up, t)
                dd == DownFactor(args.sigma, args.down, t)
            IN  /\ dt' = t /\ u' = uu /\ d' = dd
                /\ p' = RiskNeutralP(args.risk_free, t, uu, dd)
                /\ pc' = "alloc"
                /\ UNCHANGED result
    /\ UNCHANGED <<ex, u_d, call_price, args, tree, option_values, i, j, out, visits>>
    /\ UNCHANGED elsewhere

\* Lines 165-167.
TreeAlloc ==
    /\ pc = "alloc"
    /\ tree' = [Zeros2(N) EXCEPT ![0][0] = args.spot]
    /\ i' = 1 /\ j' = 0
    /\ pc' = "tree"
    /\ UNCHANGED <<ex, u_d, call_price, args, dt, u, d, p, option_values, result, out,
                   visits>>
    /\ UNCHANGED elsewhere

\* Line 168.
TreeUp ==
    /\ pc = "tree" /\ j = 0
    /\ tree' = [tree EXCEPT ![i][0] = NodeUp(tree[i - 1][0], u)]
    /\ visits' = [visits EXCEPT !.lattice =
                    Append(@, [write |-> <<i, 0>>, read |-> <<i - 1, 0>>])]
    /\ j' = 1
    /\ UNCHANGED <<ex, u_d, call_price, pc, args, dt, u, d, p, option_values, i,
                   result, out>>
    /\ UNCHANGED elsewhere

\* Line 169 run as range(1, i + 2): one position past the diagonal.
TreeDown_PastDiagonal ==
    /\ pc = "tree" /\ j >= 1
    /\ tree' = [tree EXCEPT ![i][j] = NodeDown(tree[i - 1][j - 1], d)]
    /\ visits' = [visits EXCEPT !.lattice =
                    Append(@, [write |-> <<i, j>>, read |-> <<i - 1, j - 1>>])]
    /\ IF j < i + 1 THEN j' = j + 1 /\ UNCHANGED <<i, pc>>
       ELSE IF i < N THEN i' = i + 1 /\ j' = 0 /\ UNCHANGED pc
       ELSE pc' = "values" /\ UNCHANGED <<i, j>>
    /\ UNCHANGED <<ex, u_d, call_price, args, dt, u, d, p, option_values, result, out>>
    /\ UNCHANGED elsewhere

\* Lines 169-170, and the loop control of lines 167 and 169.
TreeDown ==
    /\ pc = "tree" /\ j >= 1
    /\ tree' = [tree EXCEPT ![i][j] = NodeDown(tree[i - 1][j - 1], d)]
    /\ visits' = [visits EXCEPT !.lattice =
                    Append(@, [write |-> <<i, j>>, read |-> <<i - 1, j - 1>>])]
    /\ IF j < i THEN j' = j + 1 /\ UNCHANGED <<i, pc>>
       ELSE IF i < N THEN i' = i + 1 /\ j' = 0 /\ UNCHANGED pc
       ELSE pc' = "values" /\ UNCHANGED <<i, j>>
    /\ UNCHANGED <<ex, u_d, call_price, args, dt, u, d, p, option_values, result, out>>
    /\ UNCHANGED elsewhere

\* Line 173.
ValuesAlloc ==
    /\ pc = "values"
    /\ option_values' = Zeros1(N)
    /\ j' = 0
    /\ pc' = "payoff"
    /\ UNCHANGED <<ex, u_d, call_price, args, dt, u, d, p, tree, i, result, out, visits>>
    /\ UNCHANGED elsewhere

\* Lines 174-178.
PayoffStep ==
    /\ pc = "payoff"
    /\ option_values' =
         [option_values EXCEPT ![j] = Payoff(args.option_type, tree[N][j], args.strike)]
    /\ IF j < N THEN j' = j + 1 /\ UNCHANGED <<i, pc>>
       ELSE i' = N - 1 /\ j' = 0 /\ pc' = "induct"
    /\ UNCHANGED <<ex, u_d, call_price, args, dt, u, d, p, tree, result, out, visits>>
    /\ UNCHANGED elsewhere

InductStep_Descending ==
    /\ pc = "induct"
    /\ option_values' =
         [option_values EXCEPT ![i - j] =
            Continuation(p, option_values[i - j], option_values[i - j + 1],
                         Discount(args.risk_free, dt))]
    /\ visits' = [visits EXCEPT !.induction =
                    Append(@, [row |-> i, pos |-> i - j, read |-> i - j + 1])]
    /\ IF j < i THEN j' = j + 1 /\ UNCHANGED <<i, pc>>
       ELSE IF i > 0 THEN i' = i - 1 /\ j' = 0 /\ UNCHANGED pc
       ELSE pc' = "return" /\ UNCHANGED <<i, j>>
    /\ UNCHANGED <<ex, u_d, call_price, args, dt, u, d, p, tree, result, out>>
    /\ UNCHANGED elsewhere

InductStep_WritesLattice ==
    /\ pc = "induct"
    /\ LET v == Continuation(p, option_values[j], option_values[j + 1],
                             Discount(args.risk_free, dt))
       IN  /\ option_values' = [option_values EXCEPT ![j] = v]
           /\ tree' = [tree EXCEPT ![i][j] = v]
    /\ visits' = [visits EXCEPT !.induction =
                    Append(@, [row |-> i, pos |-> j, read |-> j + 1])]
    /\ IF j < i THEN j' = j + 1 /\ UNCHANGED <<i, pc>>
       ELSE IF i > 0 THEN i' = i - 1 /\ j' = 0 /\ UNCHANGED pc
       ELSE pc' = "return" /\ UNCHANGED <<i, j>>
    /\ UNCHANGED <<ex, u_d, call_price, args, dt, u, d, p, result, out>>
    /\ UNCHANGED elsewhere

\* Lines 181-183.
InductStep ==
    /\ pc = "induct"
    /\ option_values' =
         [option_values EXCEPT ![j] =
            Continuation(p, option_values[j], option_values[j + 1],
                         Discount(args.risk_free, dt))]
    /\ visits' = [visits EXCEPT !.induction =
                    Append(@, [row |-> i, pos |-> j, read |-> j + 1])]
    /\ IF j < i THEN j' = j + 1 /\ UNCHANGED <<i, pc>>
       ELSE IF i > 0 THEN i' = i - 1 /\ j' = 0 /\ UNCHANGED pc
       ELSE pc' = "return" /\ UNCHANGED <<i, j>>
    /\ UNCHANGED <<ex, u_d, call_price, args, dt, u, d, p, tree, result, out>>
    /\ UNCHANGED elsewhere

\* Line 185.
Return ==
    /\ pc = "return"
    /\ result' = Returned(option_values[0])
    /\ pc' = "done"
    /\ UNCHANGED <<ex, u_d, call_price, args, locals, out>>
    /\ UNCHANGED elsewhere

\* Lines 215-216: the cell prints when put_price + spot equals
\* call_price + K * exp(-rf * maturity).
ParityPrinted(put_price, cp, a) ==
    /\ cp.set /\ cp.result.kind = "value"
    /\ FAdd(put_price, a.spot) =
         FAdd(cp.result.val,
              FMul(a.strike, Exp(FMul(FNeg(a.risk_free), a.maturity))))

\* Lines 188, 211-216: the cell takes the outcome.  An exception ends the
\* cell; a call cell binds call_price; a put cell checks the parity.
Store ==
    /\ pc = "done"
    /\ IF result.kind \in {"value", "None"} /\ args.option_type = "call"
       THEN call_price' = [set |-> TRUE, args |-> args, result |-> result]
       ELSE UNCHANGED call_price
    /\ IF /\ result.kind = "value" /\ args.option_type = "put"
          /\ ParityPrinted(result.val, call_price, args)
       THEN out' = Append(out, ParityMessage)
       ELSE UNCHANGED out
    /\ pc' = "idle"
    /\ args' = NoArgs
    /\ result' = Pending
    /\ NoLocals
    /\ UNCHANGED <<ex, u_d>>
    /\ UNCHANGED elsewhere

Next ==
    \/ RunExample
    \/ RebindUD
    \/ Call
    \/ Guard
    \/ Params
    \/ TreeAlloc
    \/ TreeUp
    \/ TreeDown
    \/ ValuesAlloc
    \/ PayoffStep
    \/ InductStep
    \/ Return
    \/ Store

Spec == Init /\ [][Next]_vars

-----------------------------------------------------------------------------
(* The kernel of 6_Interest_rates_Futures.ipynb                            *)

\* Lines 128-129, 172-173: a cell calls days_30_360 on two date strings.
DaysCall ==
    /\ dc.pc = "idle"
    /\ \E s \in DateStrings, e \in DateStrings :
          dc' = [NoDayCount EXCEPT !.pc = "convert", !.start_arg = s, !.end_arg = e]
    /\ UNCHANGED <<binomialKernel, iv, cv, mg>>

\* Lines 113-114.
DaysConvert ==
    /\ dc.pc = "convert"
    /\ LET sd == ToDatetime(dc.start_arg)
           ed == ToDatetime(dc.end_arg)
       IN  IF sd = NoDate
           THEN dc' = [dc EXCEPT !.pc = "done", !.result.kind = "ValueError"]
           ELSE IF ed = NoDate
           THEN dc' = [dc EXCEPT !.pc = "done", !.start_date = sd,
                                 !.result.kind = "ValueError"]
           ELSE dc' = [dc EXCEPT !.pc = "adjust", !.start_date = sd, !.end_date = ed]
    /\ UNCHANGED <<binomialKernel, iv, cv, mg>>

\* Lines 118-119.
DaysAdjust ==
    /\ dc.pc = "adjust"
    /\ dc' = [dc EXCEPT !.pc = "diff",
                        !.start_day = AdjustDay(dc.start_date.day),
                        !.end_day = AdjustDay(dc.end_date.day)]
    /\ UNCHANGED <<binomialKernel, iv, cv, mg>>

\* Lines 122-126.
DaysReturn ==
    /\ dc.pc = "diff"
    /\ dc' = [dc EXCEPT !.pc = "done",
                        !.result = [kind |-> "value",
                                    val |-> DayCount(dc.start_date, dc.end_date,
                                                     dc.start_day, dc.end_day)]]
    /\ UNCHANGED <<binomialKernel, iv, cv, mg>>

\* The cell takes the outcome and the frame of the call is gone.
DaysStore ==
    /\ dc.pc = "done"
    /\ dc' = NoDayCount
    /\ UNCHANGED <<binomialKernel, iv, cv, mg>>

NextDays ==
    \/ DaysCall
    \/ DaysConvert
    \/ DaysAdjust
    \/ DaysReturn
    \/ DaysStore

SpecDays == Init /\ [][NextDays]_vars

-----------------------------------------------------------------------------
(* The kernel of the Black-Scholes-Merton notebook (README.md)             *)

\* Line 500: a cell calls the solver.
IvCall ==
    /\ iv.pc = "idle"
    /\ \E a \in SolverCalls : iv' = [NoSolve EXCEPT !.pc = "init", !.args = a]
    /\ UNCHANGED <<binomialKernel, dc, cv, mg>>

\* Lines 449-454.
IvInit ==
    /\ iv.pc = "init"
    /\ LET a == iv.args
           lo == Fx(0, 10)
           hi == Fx(5, 0)
       IN  iv' = [iv EXCEPT
                    !.pc = "select", !.vol_min = lo, !.vol_max = hi, !.iteration = 0,
                    !.price_min = Black_Scholes_Merton(a.spot, a.strike, a.maturity,
                                                       a.risk_free_rate, lo),
                    !.price_max = Black_Scholes_Merton(a.spot, a.strike, a.maturity,
                                                       a.risk_free_rate, hi)]
    /\ UNCHANGED <<binomialKernel, dc, cv, mg>>

\* Lines 456-461: no else branch.
IvSelect ==
    /\ iv.pc = "select"
    /\ IF iv.args.type \in {"call", "put"}
       THEN iv' = [iv EXCEPT
                     !.pc = "loop", !.bound = {"option_price_min", "option_price_max"},
                     !.option_price_min = SelectPrice(iv.args.type, iv.price_min),
                     !.option_price_max = SelectPrice(iv.args.type, iv.price_max)]
       ELSE iv' = [iv EXCEPT !.pc = "loop"]
    /\ UNCHANGED <<binomialKernel, dc, cv, mg>>

\* Line 465.
IvLoopTest ==
    /\ iv.pc = "loop"
    /\ iv' = [iv EXCEPT !.pc = IF iv.iteration < iv.args.max_iterations
                               THEN "interpolate" ELSE "exit"]
    /\ UNCHANGED <<binomialKernel, dc, cv, mg>>

\* Line 467: reading an unbound local raises UnboundLocalError.
IvInterpolate ==
    /\ iv.pc = "interpolate"
    /\ IF "option_price_min" \notin iv.bound
       THEN iv' = [iv EXCEPT !.pc = "done", !.result.kind = "UnboundLocalError"]
       ELSE iv' = [iv EXCEPT
                     !.pc = "price", !.bound = iv.bound \cup {"vol_mid"},
                     !.vol_mid = Interpolate(iv.args.market_price, iv.vol_min,
                                             iv.vol_max, iv.option_price_min,
                                             iv.option_price_max)]
    /\ UNCHANGED <<binomialKernel, dc, cv, mg>>

\* Lines 470-475.
IvPrice ==
    /\ iv.pc = "price"
    /\ LET a == iv.args
       IN  iv' = [iv EXCEPT
                    !.pc = "check", !.bound = iv.bound \cup {"option_price_mid"},
                    !.option_price_mid =
                        SelectPrice(a.type,
                                    Black_Scholes_Merton(a.spot, a.strike, a.maturity,
                                                         a.risk_free_rate, iv.vol_mid))]
    /\ UNCHANGED <<binomialKernel, dc, cv, mg>>

\* Lines 478-479.
IvCheck ==
    /\ iv.pc = "check"
    /\ IF Converged(iv.option_price_mid, iv.args.market_price,
                    iv.args.convergence_threshold)
       THEN iv' = [iv EXCEPT !.pc = "done",
                             !.result = [kind |-> "value", val |-> iv.vol_mid]]
       ELSE iv' = [iv EXCEPT !.pc = "update"]
    /\ UNCHANGED <<binomialKernel, dc, cv, mg>>

\* Lines 482-485 with the two branches exchanged.
IvUpdate_Exchanged ==
    /\ iv.pc = "update"
    /\ IF iv.option_price_mid < iv.args.market_price
       THEN iv' = [iv EXCEPT !.pc = "loop", !.iteration = iv.iteration + 1,
                             !.vol_max = iv.vol_mid,
                             !.option_price_max = iv.option_price_mid]
       ELSE iv' = [iv EXCEPT !.pc = "loop", !.iteration = iv.iteration + 1,
                             !.vol_min = iv.vol_mid,
                             !.option_price_min = iv.option_price_mid]
    /\ UNCHANGED <<binomialKernel, dc, cv, mg>>

\* Lines 482-487.
IvUpdate ==
    /\ iv.pc = "update"
    /\ IF iv.option_price_mid < iv.args.market_price
       THEN iv' = [iv EXCEPT !.pc = "loop", !.iteration = iv.iteration + 1,
                             !.vol_min = iv.vol_mid,
                             !.option_price_min = iv.option_price_mid]
       ELSE iv' = [iv EXCEPT !.pc = "loop", !.iteration = iv.iteration + 1,
                             !.vol_max = iv.vol_mid,
                             !.option_price_max = iv.option_price_mid]
    /\ UNCHANGED <<binomialKernel, dc, cv, mg>>

\* Lines 490-491: the message goes to the cell's output, the return value is
\* vol_mid alone; vol_mid is unbound when the loop body never ran.
IvExit ==
    /\ iv.pc = "exit"
    /\ LET printed == Append(iv.out, <<"Convergence was not reached after", iv.iteration>>)
       IN  IF "vol_mid" \notin iv.bound
           THEN iv' = [iv EXCEPT !.pc = "done", !.out = printed,
                                 !.result.kind = "UnboundLocalError"]
           ELSE iv' = [iv EXCEPT !.pc = "done", !.out = printed,
                                 !.result = [kind |-> "value", val |-> iv.vol_mid]]
    /\ UNCHANGED <<binomialKernel, dc, cv, mg>>

\* Lines 500-501: the cell takes the outcome and the frame is gone.
IvStore ==
    /\ iv.pc = "done"
    /\ iv' = NoSolve
    /\ UNCHANGED <<binomialKernel, dc, cv, mg>>

NextSolver ==
    \/ IvCall
    \/ IvInit
    \/ IvSelect
    \/ IvLoopTest
    \/ IvInterpolate
    \/ IvPrice
    \/ IvCheck
    \/ IvUpdate
    \/ IvExit
    \/ IvStore

SpecSolver == Init /\ [][NextSolver]_vars

-----------------------------------------------------------------------------
(* A kernel holding both functions: one parameter set priced in closed     *)
(* form and on lattices of 1, 2, ... steps                                 *)

\* README.md line 242: the closed-form price of the requested type.
ConvStart ==
    /\ cv.pc = "idle"
    /\ \E a \in ConvergenceCalls :
          cv' = [pc |-> "steps", args |-> a, binomial |-> <<>>,
                 black_scholes |->
                     SelectPrice(a.option_type,
                                 Black_Scholes_Merton(a.spot, a.strike, a.maturity,
                                                      a.risk_free, a.sigma))]
    /\ UNCHANGED <<binomialKernel, dc, iv, mg>>

\* 13_Binomial_Trees.ipynb line 188, with sigma: the next lattice.
ConvStep ==
    /\ cv.pc = "steps"
    /\ Len(cv.binomial) < MaxConvSteps
    /\ cv' = [cv EXCEPT !.binomial =
                Append(cv.binomial,
                       BinomialTreeFx(u_d, [cv.args EXCEPT !.number_of_branch =
                                                             Len(cv.binomial) + 1]))]
    /\ UNCHANGED <<binomialKernel, dc, iv, mg>>

ConvEnd ==
    /\ cv.pc = "steps"
    /\ cv' = NoComparison
    /\ UNCHANGED <<binomialKernel, dc, iv, mg>>

NextConv ==
    \/ RebindUD
    \/ ConvStart
    \/ ConvStep
    \/ ConvEnd

SpecConv == Init /\ [][NextConv]_vars

-----------------------------------------------------------------------------
(* The margin example, run from the first cell to the last.                  *)

\* Lines 59-67.
MarginDay1 ==
    /\ mg.pc = "day1"
    /\ \E contracts \in 1..MaxContracts :
          LET deposit == InitialDeposit(contracts, 6000)
              position == PositionTaken(contracts, 1750, 100)
          IN  mg' = [mg EXCEPT
                       !.pc = "day2",
                       !.bound = {"bought_contracts", "futures_price_day1",
                                  "contract_size", "initial_margin",
                                  "position_taken", "initial_deposit"},
                       !.bought_contracts = contracts,
                       !.futures_price_day1 = 1750,
                       !.contract_size = 100,
                       !.initial_margin = 6000,
                       !.position_taken = position,
                       !.initial_deposit = deposit,
                       !.out = <<<<"capital invested on day 1", position>>,
                                 <<"margin deposit on day 1", deposit>>>>]
    /\ UNCHANGED <<binomialKernel, dc, iv, cv>>

\* Lines 89-94.
MarginDay2 ==
    /\ mg.pc = "day2"
    /\ \E price \in Day2Prices :
          LET change == WinOrLoss(price, mg.futures_price_day1, mg.futures_price_day1,
                                  mg.bought_contracts, mg.contract_size)
              balance == mg.initial_deposit + change
          IN  mg' = [mg EXCEPT
                       !.pc = "maintenance",
                       !.bound = @ \cup {"futures_price_day2", "win_or_loss",
                                         "margin_deposit"},
                       !.futures_price_day2 = price,
                       !.win_or_loss = change,
                       !.margin_deposit = balance,
                       !.out = @ \o <<<<"returns on day 2", change>>,
                                      <<"margin deposit on day 2", balance>>>>]
    /\ UNCHANGED <<binomialKernel, dc, iv, cv>>

\* Lines 118-119.
MarginMaintenance ==
    /\ mg.pc = "maintenance"
    /\ LET level == MaintenanceMargin(mg.initial_deposit)
       IN  mg' = [mg EXCEPT
                    !.pc = "day3",
                    !.bound = @ \cup {"maintenance_margin"},
                    !.maintenance_margin = level,
                    !.out = Append(@, <<"maintenance margin for position", level>>)]
    /\ UNCHANGED <<binomialKernel, dc, iv, cv>>

\* Lines 122-127.
MarginDay3 ==
    /\ mg.pc = "day3"
    /\ \E price \in Day3Prices :
          LET change == WinOrLoss(price, mg.futures_price_day2, mg.futures_price_day1,
                                  mg.bought_contracts, mg.contract_size)
              balance == mg.margin_deposit + change
          IN  mg' = [mg EXCEPT
                       !.pc = "check",
                       !.bound = @ \cup {"futures_price_day3"},
                       !.futures_price_day3 = price,
                       !.win_or_loss = change,
                       !.margin_deposit = balance,
                       !.out = @ \o <<<<"returns on day 3", change>>,
                                      <<"margin deposit on day 3", balance>>>>]
    /\ UNCHANGED <<binomialKernel, dc, iv, cv>>

\* Lines 129-131: no else branch.
MarginCheck ==
    /\ mg.pc = "check"
    /\ IF BelowMaintenance(mg.margin_deposit, mg.maintenance_margin)
       THEN LET cash == CashToAdd(mg.initial_deposit, mg.margin_deposit)
            IN  mg' = [mg EXCEPT
                         !.pc = "end",
                         !.bound = @ \cup {"cash_to_add"},
                         !.cash_to_add = cash,
                         !.out = Append(@, <<"cash to add to deposit", cash>>)]
       ELSE mg' = [mg EXCEPT !.pc = "end"]
    /\ UNCHANGED <<binomialKernel, dc, iv, cv>>

\* The kernel is restarted and the cells are run again.
MarginRestart ==
    /\ mg.pc = "end"
    /\ mg' = NoMargin
    /\ UNCHANGED <<binomialKernel, dc, iv, cv>>

NextMargin ==
    \/ MarginDay1
    \/ MarginDay2
    \/ MarginMaintenance
    \/ MarginDay3
    \/ MarginCheck
    \/ MarginRestart

SpecMargin == Init /\ [][NextMargin]_vars

-----------------------------------------------------------------------------
(* Properties                                                              *)

\* IEEE equality: nan equals nothing.
FEq(a, b) == ~IsNaN(a) /\ ~IsNaN(b) /\ a = b

SuppliesBoth(a) == ~IsNone(a.sigma) /\ ~IsNone(a.up) /\ ~IsNone(a.down)
SuppliesNeither(a) == IsNone(a.sigma) /\ IsNone(a.up) /\ IsNone(a.down)
ExactlyOneVolSpec(a) ==
    \/ ~IsNone(a.sigma) /\ IsNone(a.up) /\ IsNone(a.down)
    \/ IsNone(a.sigma) /\ ~IsNone(a.up) /\ ~IsNone(a.down)

ParamsComputed ==
    \/ pc \in {"alloc", "tree", "values", "payoff", "induct", "return"}
    \/ pc = "done" /\ result.kind = "value"
LatticeTouched ==
    \/ pc \in {"tree", "values", "payoff", "induct", "return"}
    \/ pc = "done" /\ result.kind = "value"
LatticeBuilt ==
    \/ pc \in {"values", "payoff", "induct", "return"}
    \/ pc = "done" /\ result.kind = "value"

\* C1: a call that supplies both sigma and (up, down), or neither, fails with
\* InvalidParameters (no None, no price) and builds no lattice.
C1_BothOrNeitherRejected ==
    (~args.american /\ (SuppliesBoth(args) \/ SuppliesNeither(args))) =>
        /\ ~LatticeTouched
        /\ pc = "done" => result.kind = "InvalidParameters"

\* C2: the outcome of binomial_tree depends on its arguments alone (a second
\* call with the arguments that produced call_price has the same outcome,
\* whatever u_d is by then) and the call prints nothing.
C2_PureFunctionOfArguments ==
    /\ (pc = "done" /\ ~args.american) => out = <<>>
    /\ (pc = "done" /\ call_price.set /\ call_price.args = args)
          => result = call_price.result

\* C3: once the lattice is built from finite factors, every node (r, c) with
\* c <= r <= steps holds spot * u^(r-c) * d^c; the factors are the
\* volatility's or the additive 1 + up, 1 - down.
C3_LatticeNodes ==
    (LatticeBuilt /\ IsFinite(u) /\ IsFinite(d)) =>
        /\ \A r \in 0..N : \A c \in 0..r :
              FEq(tree[r][c], FMul(args.spot, FMul(FPow(u, r - c), FPow(d, c))))
        /\ ~Truthy(args.sigma) => u = FAdd(One, args.up) /\ d = FSub(One, args.down)

C3_Witness ==
    /\ LatticeBuilt /\ N >= 2 /\ Truthy(args.sigma)
    /\ IsFinite(u) /\ u # d
    /\ tree[2][1] = args.spot /\ tree[2][0] # tree[2][2]

\* C4: put-call parity.  When a put has been priced with the parameters that
\* produced call_price and u # d, call - put = spot - strike * exp(-r * T).
ParityPair ==
    /\ pc = "done" /\ args.option_type = "put" /\ result.kind = "value"
    /\ call_price.set /\ call_price.result.kind = "value"
    /\ call_price.args = [args EXCEPT !.option_type = "call"]
    /\ IsFinite(u) /\ IsFinite(d) /\ u # d

C4_PutCallParity ==
    ParityPair =>
        FEq(FSub(call_price.result.val, result.val),
            FSub(args.spot,
                 FMul(args.strike, Exp(FMul(FNeg(args.risk_free), args.maturity)))))

C4_Witness ==
    /\ ParityPair /\ N >= 2 /\ args.risk_free = One
    /\ FLt(Zero, result.val) /\ FLt(Zero, call_price.result.val)
    /\ FLt(Zero, p) /\ FLt(p, One)

\* C5: the price with american = true is at least the European price with
\* the same parameters.
C5_AmericanAtLeastEuropean ==
    ( /\ pc = "done" /\ args.american
      /\ call_price.set /\ call_price.result.kind = "value"
      /\ call_price.args = [args EXCEPT !.american = FALSE] )
        => (result.kind = "value" /\ FLe(call_price.result.val, result.val))

\* C6: pricing an American option, the value at each interior node is
\* max(continuation value, intrinsic value at that node); in the worked
\* American put these are the two nodes of put_value_b1.
ExContinuation(k) ==
    MulFx(ExExpectation(ex.p, ex.put_value_b2[2 * k - 1], ex.put_value_b2[2 * k]),
          ExpFx(MulFx(-ExRf, ExDt)))

ExIntrinsic(k) == ExPutPayoff(ExStrike, ex.first_branch[k])

C6_EarlyExerciseAtInteriorNodes ==
    ex.ran => \A k \in 1..2 :
        ex.put_value_b1[k] = MaxFx(ExContinuation(k), ExIntrinsic(k))

\* C7 as claimed: the American put of the worked example, priced with
\* per-step discounting and the early-exercise comparison, is 6.9026 to
\* within 0.001, and that is the value the example yields.
ExTolerance == Fx(0, 1000)
ExReference == Fx(6, 902600)

ExAmericanValue ==
    MaxFx(MulFx(ExExpectation(ex.p,
                              MaxFx(ExContinuation(1), ExIntrinsic(1)),
                              MaxFx(ExContinuation(2), ExIntrinsic(2))),
                ExpFx(MulFx(-ExRf, ExDt))),
          ExPutPayoff(ExStrike, ExSpot))

ExTerminalExpectation ==
    LET q == FxScale - ex.p
        b == ex.put_value_b2
    IN  MulFx(MulFx(ex.p, ex.p), b[1]) + MulFx(MulFx(ex.p, q), b[2])
          + MulFx(MulFx(q, ex.p), b[3]) + MulFx(MulFx(q, q), b[4])

ValidInputs(a) ==
    /\ FLt(Zero, a.spot) /\ FLt(Zero, a.strike) /\ FLt(Zero, a.maturity)
    /\ a.number_of_branch >= 1
    /\ ExactlyOneVolSpec(a)
    /\ ~a.american

C8_ValuesNonNegative ==
    ValidInputs(args) =>
        /\ \A k \in DOMAIN option_values : FLe(Zero, option_values[k])
        /\ result.kind = "value" => FLe(Zero, result.val)

\* C9: when u = d, or p lies outside [0, 1], the call fails with
\* ArithmeticDomainError and returns no price.
DegenerateLattice == u = d \/ ~(FLe(Zero, p) /\ FLe(p, One))

C9_DegenerateLatticeRejected ==
    (ParamsComputed /\ DegenerateLattice /\ pc = "done")
        => result.kind = "ArithmeticDomainError"

\* C10: a call with non-positive spot, strike or maturity, or steps < 1,
\* fails with InvalidParameters before any computation; no lattice, no price.
NonPositiveInput(a) ==
    \/ ~FLt(Zero, a.spot) \/ ~FLt(Zero, a.strike) \/ ~FLt(Zero, a.maturity)
    \/ a.number_of_branch < 1

C10_NonPositiveInputRejected ==
    (~args.american /\ NonPositiveInput(args)) =>
        /\ ~LatticeTouched
        /\ pc = "done" => result.kind = "InvalidParameters"

\* C11: a valid call that supplies sigma and omits up and down is accepted
\* and priced on the lattice with dt = maturity / steps, u = exp(sigma *
\* sqrt(dt)), d = exp(-sigma * sqrt(dt)), so that u * d = 1 and node (2k, k)
\* is the spot for every k with 2k <= steps.
VolatilityOnly(a) == ~IsNone(a.sigma) /\ IsNone(a.up) /\ IsNone(a.down)

C11_VolatilityLattice ==
    (ValidInputs(args) /\ VolatilityOnly(args) /\ pc = "done") =>
        /\ result.kind = "value"
        /\ dt = FDiv(args.maturity, Whole(N))
        /\ u = Exp(FMul(args.sigma, Sqrt(dt)))
        /\ d = Exp(FMul(FNeg(args.sigma), Sqrt(dt)))
        /\ FMul(u, d) = One
        /\ \A k \in 0..N : 2 * k <= N => tree[2 * k][k] = args.spot

\* C12: with one step the call returns exactly
\* (p * payoff(spot * u) + (1 - p) * payoff(spot * d)) * exp(-risk_free * dt),
\* payoff(S) being max(0, S - strike) for a call and max(0, strike - S) for
\* a put.
TwoNodePayoff(a, S) ==
    IF a.option_type \in {"call", "Call", "CALL"} THEN PyMax(Zero, FSub(S, a.strike))
    ELSE IF a.option_type \in {"put", "Put", "PUT"} THEN PyMax(Zero, FSub(a.strike, S))
    ELSE Zero

TwoNodePrice(a) ==
    FMul(FAdd(FMul(p, TwoNodePayoff(a, FMul(a.spot, u))),
              FMul(FSub(One, p), TwoNodePayoff(a, FMul(a.spot, d)))),
         Exp(FMul(FNeg(a.risk_free), dt)))

C12_SinglePeriodFormula ==
    (pc = "done" /\ result.kind = "value" /\ N = 1) =>
        result.val = TwoNodePrice(args)

C12_Witness ==
    /\ pc = "done" /\ result.kind = "value" /\ N = 1
    /\ args.risk_free = One /\ FLt(Zero, p) /\ FLt(p, One)
    /\ FLt(Zero, result.val) /\ result.val = TwoNodePrice(args)

\* C13: once built, the lattice is not written again before the call ends:
\* payoff evaluation and backward induction leave it as it was, positions
\* (r, c) with c > r keep the zero of np.zeros throughout, and a backward
\* induction step changes option_values and the loop counters only.
UpperTriangleUntouched ==
    \A r \in DOMAIN tree : \A c \in DOMAIN tree[r] : c > r => tree[r][c] = Zero

RECURSIVE Choose(_, _)
Choose(n, k) ==
    IF k = 0 \/ k = n THEN 1 ELSE Choose(n - 1, k - 1) + Choose(n - 1, k)

BinomialTerm(a, n, k) ==
    FMul(FMul(Whole(Choose(n, k)), FMul(FPow(p, n - k), FPow(FSub(One, p), k))),
         TwoNodePayoff(a, FMul(a.spot, FMul(FPow(u, n - k), FPow(d, k)))))

RECURSIVE BinomialSum(_, _, _)
BinomialSum(a, n, k) ==
    IF k > n THEN Zero ELSE FAdd(BinomialTerm(a, n, k), BinomialSum(a, n, k + 1))

BinomialExpectation(a) ==
    FMul(Exp(FMul(FNeg(a.risk_free), a.maturity)), BinomialSum(a, N, 0))

C19_DiscountedBinomialExpectation ==
    (pc = "done" /\ result.kind = "value") =>
        result.val = BinomialExpectation(args)

C19_Witness ==
    /\ pc = "done" /\ result.kind = "value" /\ N >= 2
    /\ args.risk_free = One /\ FLt(Zero, p) /\ FLt(p, One) /\ p # Norm(1, 2)
    /\ FLt(Zero, result.val) /\ result.val = BinomialExpectation(args)

\* C20: the in-place induction agrees with a reference that keeps one value
\* array per time step.  While row i is being updated at position j, entries
\* below j hold the reference values of row i and entries j..i+1 still hold
\* those of row i+1; the value returned is the reference value of node (0, 0).
RECURSIVE ReferenceValue(_, _)
ReferenceValue(r, c) ==
    IF r = N THEN Payoff(args.option_type, tree[N][c], args.strike)
    ELSE Continuation(p, ReferenceValue(r + 1, c), ReferenceValue(r + 1, c + 1),
                      Discount(args.risk_free, dt))

C20_InPlaceEqualsPerStepArrays ==
    /\ pc = "induct" =>
          \A c \in 0..(i + 1) :
              option_values[c] =
                  IF c < j THEN ReferenceValue(i, c) ELSE ReferenceValue(i + 1, c)
    /\ (pc = "return" \/ (pc = "done" /\ result.kind = "value")) =>
          option_values[0] = ReferenceValue(0, 0)

C20_Witness ==
    /\ pc = "induct" /\ N >= 2 /\ i = 1 /\ j = 1
    /\ option_values[0] = ReferenceValue(1, 0)
    /\ option_values[1] = ReferenceValue(2, 1)
    /\ ReferenceValue(1, 1) # ReferenceValue(2, 1)
    /\ ReferenceValue(1, 0) # ReferenceValue(2, 0)

\* C17: for valid calendar dates days_30_360 returns
\* 360 * (Y2 - Y1) + 30 * (M2 - M1) + (min(30, D2) - min(30, D1)); two dates
\* with the same day of the month k months apart count 30 * k days;
\* 2020-03-01 to 2020-09-01 is 180 and 2018-02-28 to 2018-03-01 is 3.
TripleOf(s) == CHOOSE t \in DateTriples : IsoString(t) = s

Least(a, b) == IF a <= b THEN a ELSE b

Formula30360(t1, t2) ==
    360 * (t2[1] - t1[1]) + 30 * (t2[2] - t1[2])
        + (Least(30, t2[3]) - Least(30, t1[3]))

MonthsApart(t1, t2) == 12 * (t2[1] - t1[1]) + (t2[2] - t1[2])

C17_DayCount30360 ==
    dc.pc = "done" =>
        LET t1 == TripleOf(dc.start_arg)
            t2 == TripleOf(dc.end_arg)
        IN  (OnCalendar(t1) /\ OnCalendar(t2)) =>
              /\ dc.result.kind = "value"
              /\ dc.result.val = Formula30360(t1, t2)
              /\ t1[3] = t2[3] => dc.result.val = 30 * MonthsApart(t1, t2)
              /\ (t1 = <<2020, 3, 1>> /\ t2 = <<2020, 9, 1>>) => dc.result.val = 180
              /\ (t1 = <<2018, 2, 28>> /\ t2 = <<2018, 3, 1>>) => dc.result.val = 3

C17_Witness ==
    /\ dc.pc = "done" /\ dc.result.kind = "value"
    /\ dc.start_arg = IsoString(<<2018, 3, 31>>)
    /\ dc.end_arg = IsoString(<<2020, 2, 29>>)
    /\ dc.result.val = 360 * 2 - 30 - 1

\* C14: for every max_iterations >= 0 a call of the solver for a call or a
\* put ends by returning a volatility, after at most max_iterations runs of
\* the loop body.
C14_SolverReturnsEstimate ==
    (iv.pc = "done" /\ iv.args.type \in {"call", "put"}) =>
        /\ iv.result.kind = "value"
        /\ iv.iteration <= iv.args.max_iterations

\* C15: when the solver reaches the iteration cap without convergence, what
\* it returns tells the caller so: the result is marked as not converged and
\* carries the last estimate.
ReachedCap ==
    /\ iv.pc = "done" /\ iv.out # <<>>
    /\ iv.args.max_iterations >= 1

C15_NonConvergenceIndicated ==
    ReachedCap => iv.result.kind = "NotConverged"

\* C16: a volatility returned from inside the loop prices the requested type
\* within the threshold of the market price, and no earlier trial did: an
\* iteration that goes on to update the bounds has missed the threshold.
RequestedPrice(a, v) ==
    LET prices == Black_Scholes_Merton(a.spot, a.strike, a.maturity,
                                       a.risk_free_rate, v)
    IN  IF a.type = "call" THEN prices[1] ELSE prices[2]

ReturnedInLoop == iv.pc = "done" /\ iv.result.kind = "value" /\ iv.out = <<>>

C16_ReturnsAtFirstTrialWithinThreshold ==
    /\ ReturnedInLoop =>
          /\ iv.args.type \in {"call", "put"}
          /\ Abs(RequestedPrice(iv.args, iv.result.val) - iv.args.market_price)
                < iv.args.convergence_threshold
    /\ iv.pc = "update" =>
          Abs(RequestedPrice(iv.args, iv.vol_mid) - iv.args.market_price)
                >= iv.args.convergence_threshold

C16_Witness ==
    /\ ReturnedInLoop /\ iv.args.type = "put" /\ iv.iteration >= 1
    /\ Abs(RequestedPrice(iv.args, iv.result.val) - iv.args.market_price)
          < iv.args.convergence_threshold
    /\ Abs(iv.price_max[2] - iv.args.market_price) >= iv.args.convergence_threshold

\* C18: with the other parameters fixed, the European binomial price nears
\* the Black-Scholes price monotonically in the number of steps: for
\* n1 < n2, |binomial(n2) - BlackScholes| <= |binomial(n1) - BlackScholes|.
ConvError(n) == Abs(cv.binomial[n].val - cv.black_scholes)

Priced(n) == n \in DOMAIN cv.binomial /\ cv.binomial[n].kind = "value"

ConvBand(a) == MulFx(a.spot, MulFx(a.sigma, RootFx(a.maturity)))

NextCall ==
    \/ RebindUD \/ Call \/ Guard \/ Params \/ TreeAlloc \/ TreeUp \/ TreeDown
    \/ ValuesAlloc \/ PayoffStep \/ InductStep \/ Return

\* The loop control of lines 181-182: the step InductStep makes in i and j.
InductAdvance ==
    /\ pc = "induct"
    /\ IF j < i THEN j' = j + 1 /\ UNCHANGED <<i, pc>>
       ELSE IF i > 0 THEN i' = i - 1 /\ j' = 0 /\ UNCHANGED pc
       ELSE pc' = "return" /\ UNCHANGED <<i, j>>

SpecCall ==
    /\ Init /\ [][NextCall]_vars
    /\ WF_vars(TreeUp) /\ WF_vars(TreeDown) /\ WF_<<pc, i, j>>(InductAdvance)

Triangle(n) == (n * (n + 1)) \div 2

LatticeWrites == {visits.lattice[k].write : k \in 1..Len(visits.lattice)}
InductionNodes ==
    {<<visits.induction[k].row, visits.induction[k].pos>> :
        k \in 1..Len(visits.induction)}

InductionDone ==
    \/ pc = "return"
    \/ pc = "done" /\ result.kind = "value"

\* Every access made so far is inside the arrays of lines 165 and 173 and
\* reads a lattice node that line 166, 168 or 170 has already written.
AccessesInRange ==
    /\ \A k \in 1..Len(visits.lattice) :
         LET w == visits.lattice[k].write
             r == visits.lattice[k].read
         IN  /\ 1 <= w[1] /\ w[1] <= N /\ 0 <= w[2] /\ w[2] <= w[1]
             /\ r = <<w[1] - 1, w[2] - 1>> \/ r = <<w[1] - 1, 0>>
             /\ r[2] >= 0 /\ r[2] <= r[1]
             /\ \/ r = <<0, 0>>
                \/ \E m \in 1..(k - 1) : visits.lattice[m].write = r
             /\ \A m \in 1..(k - 1) : visits.lattice[m].write # w
    /\ \A k \in 1..Len(visits.induction) :
         LET v == visits.induction[k]
         IN  /\ 0 <= v.row /\ v.row <= N - 1
             /\ 0 <= v.pos /\ v.pos <= v.row
             /\ v.read = v.pos + 1 /\ v.read <= N
             /\ \A m \in 1..(k - 1) :
                  <<visits.induction[m].row, visits.induction[m].pos>>
                    # <<v.row, v.pos>>

C21_VisitCounts ==
    /\ AccessesInRange
    /\ LatticeBuilt =>
         /\ Cardinality(LatticeWrites) = Triangle(N) + N
         /\ Len(visits.lattice) = Triangle(N) + N
         /\ Cardinality({w \in LatticeWrites : w[2] >= 1}) = Triangle(N)
    /\ InductionDone =>
         /\ Cardinality(InductionNodes) = Triangle(N)
         /\ Len(visits.induction) = Triangle(N)

Bracketed ==
    /\ iv.args.type \in {"call", "put"}
    /\ RequestedPrice(iv.args, Fx(0, 10)) < iv.args.market_price
    /\ iv.args.market_price < RequestedPrice(iv.args, Fx(5, 0))

InLoopBody == iv.pc \in {"interpolate", "price", "check", "update"}

BracketHolds ==
    /\ iv.option_price_min = RequestedPrice(iv.args, iv.vol_min)
    /\ iv.option_price_max = RequestedPrice(iv.args, iv.vol_max)
    /\ iv.option_price_min < iv.args.market_price
    /\ iv.args.market_price < iv.option_price_max
    /\ iv.vol_min < iv.vol_max
    /\ iv.option_price_max - iv.option_price_min # 0

TrialInside ==
    /\ iv.vol_min < iv.vol_mid /\ iv.vol_mid < iv.vol_max
    /\ iv.pc \in {"check", "update"} =>
         iv.option_price_mid = RequestedPrice(iv.args, iv.vol_mid)

BracketInvariant ==
    Bracketed =>
        /\ InLoopBody => BracketHolds
        /\ iv.pc \in {"price", "check", "update"} => TrialInside

WidthNotIncreasing ==
    (Bracketed /\ InLoopBody /\ iv'.pc \in {"loop", "interpolate", "price",
                                             "check", "update"})
        => /\ iv'.vol_max - iv'.vol_min <= iv.vol_max - iv.vol_min
           /\ iv.pc = "update" =>
                iv'.vol_max - iv'.vol_min < iv.vol_max - iv.vol_min

\* C22: when the market price lies strictly between the model prices at
\* volatilities 0.00001 and 5.0, then at the start of every iteration
\* price(vol_min) < market_price < price(vol_max) and vol_min < vol_max, the
\* interpolated vol_mid lies strictly inside (vol_min, vol_max), the width
\* vol_max - vol_min never increases, and the denominator
\* option_price_max - option_price_min is never zero.
C22_BracketMaintained ==
    /\ []BracketInvariant
    /\ [][WidthNotIncreasing]_vars

C22_Witness ==
    /\ Bracketed /\ iv.pc = "price" /\ iv.iteration >= 2
    /\ iv.vol_max - iv.vol_min < Fx(5, 0) - Fx(0, 10)
    /\ iv.vol_min < iv.vol_mid /\ iv.vol_mid < iv.vol_max


\* ---------------------------------------------------------------------
\* No-arbitrage bounds on the returned European prices.

\* strike * exp(-r * T).
DiscountedStrike(a) ==
    FMul(a.strike, Exp(FMul(FNeg(a.risk_free), a.maturity)))

PricedWithProbability ==
    /\ pc = "done" /\ result.kind = "value"
    /\ FLe(Zero, p) /\ FLe(p, One) /\ u # d
    /\ FLe(d, Exp(FMul(args.risk_free, dt))) /\ FLe(Exp(FMul(args.risk_free, dt)), u)
    /\ FLt(Zero, args.spot) /\ FLt(Zero, args.strike)

WithinBounds ==
    /\ args.option_type = "call" =>
         /\ FLe(PyMax(Zero, FSub(args.spot, DiscountedStrike(args))), result.val)
         /\ FLe(result.val, args.spot)
    /\ args.option_type = "put" =>
         /\ FLe(PyMax(Zero, FSub(DiscountedStrike(args), args.spot)), result.val)
         /\ FLe(result.val, DiscountedStrike(args))

\* C23 as stated: whenever 0 <= p <= 1 (d <= exp(r*dt) <= u, u # d) and
\* spot, strike > 0, the returned prices satisfy
\* max(0, spot - strike*exp(-r*T)) <= call <= spot and
\* max(0, strike*exp(-r*T) - spot) <= put <= strike*exp(-r*T).
C23_BoundsForAnyFactors ==
    PricedWithProbability => WithinBounds

\* C23 (amended): whenever 0 <= p <= 1 (d <= exp(r*dt) <= u, u # d), the
\* down factor d is not negative and spot, strike > 0, the returned European
\* prices satisfy max(0, spot - strike*exp(-r*T)) <= call <= spot and
\* max(0, strike*exp(-r*T) - spot) <= put <= strike*exp(-r*T).
C23_NoArbitrageBounds ==
    (PricedWithProbability /\ FLe(Zero, d)) => WithinBounds

C23_Witness ==
    /\ PricedWithProbability /\ FLe(Zero, d) /\ N >= 2
    /\ FLt(Zero, p) /\ FLt(p, One)
    /\ args.option_type = "put" /\ args.risk_free = One
    /\ FLt(PyMax(Zero, FSub(DiscountedStrike(args), args.spot)), result.val)
    /\ FLt(result.val, DiscountedStrike(args))


\* ---------------------------------------------------------------------
\* The option type is compared in lower case.

AsType(a, ty) == [a EXCEPT !.option_type = ty]

PriceReturned == pc = "done" /\ result.kind = "value"

\* C24: 'Call', 'CALL' and 'call' give the same price, and so do 'Put', 'PUT'
\* and 'put'; any other option_type raises no error, leaves every terminal
\* payoff at 0 and, in a call that gets past the guard of lines 148-150,
\* returns 0.
C24_TypeMatchedInAnyCase ==
    /\ (PriceReturned /\ args.option_type \in {"call", "Call", "CALL"}) =>
          result.val = BinomialExpectation(AsType(args, "call"))
    /\ (PriceReturned /\ args.option_type \in {"put", "Put", "PUT"}) =>
          result.val = BinomialExpectation(AsType(args, "put"))
    /\ args.option_type = "straddle" =>
          /\ result.kind \in {"pending", "value", "None"}
          /\ pc \in {"induct", "return"} \/ PriceReturned =>
               \A k \in DOMAIN option_values : option_values[k] = Zero
          /\ (pc = "done" /\ result.kind # "None") => result = Returned(Zero)

C24_Witness ==
    /\ PriceReturned /\ args.option_type = "CALL" /\ N >= 2
    /\ FLt(Zero, result.val)
    /\ result.val = BinomialExpectation(AsType(args, "call"))


\* ---------------------------------------------------------------------
\* Relations between day counts.

ValidDates == { s \in DateStrings : OnCalendar(ParseIso(s)) }

DayCountReturned == dc.pc = "done" /\ dc.result.kind = "value"

\* C25: over valid dates days_30_360(a, a) = 0,
\* days_30_360(a, b) = -days_30_360(b, a), and
\* days_30_360(a, b) + days_30_360(b, c) = days_30_360(a, c).
C25_DayCountAdditive ==
    DayCountReturned =>
        LET a == dc.start_arg
            b == dc.end_arg
        IN  /\ dc.result.val = days_30_360(a, b)
            /\ a = b => dc.result.val = 0
            /\ dc.result.val = -days_30_360(b, a)
            /\ \A c \in ValidDates :
                 dc.result.val + days_30_360(b, c) = days_30_360(a, c)

C25_Witness ==
    /\ DayCountReturned
    /\ dc.start_arg = IsoString(<<2019, 12, 31>>)
    /\ dc.end_arg = IsoString(<<2018, 2, 28>>)
    /\ dc.result.val = -(360 + 300 + 2)
    /\ days_30_360(dc.end_arg, IsoString(<<2020, 2, 29>>)) = 720 + 1
    /\ days_30_360(dc.start_arg, IsoString(<<2020, 2, 29>>)) = 60 - 1


\* Calendar order of two dates.
NotAfter(t1, t2) ==
    \/ t1[1] < t2[1]
    \/ t1[1] = t2[1] /\ t1[2] < t2[2]
    \/ t1[1] = t2[1] /\ t1[2] = t2[2] /\ t1[3] <= t2[3]

InOrder == NotAfter(ParseIso(dc.start_arg), ParseIso(dc.end_arg))

\* C26: for valid dates a <= b <= c in calendar order,
\* 0 <= days_30_360(a, b) <= days_30_360(a, c); days_30_360(a, b) = 0 with
\* a # b only when a and b are the 30th and the 31st of one month; hence
\* accrued_period / total_period lies in [0, 1] whenever start <= date <= end
\* and start and end differ in 30/360 terms.
C26_DayCountMonotone ==
    (DayCountReturned /\ InOrder) =>
        LET a == ParseIso(dc.start_arg)
            b == ParseIso(dc.end_arg)
        IN  /\ 0 <= dc.result.val
            /\ (dc.result.val = 0 /\ a # b) =>
                 /\ a[1] = b[1] /\ a[2] = b[2]
                 /\ a[3] = 30 /\ b[3] = 31
            /\ \A c \in ValidDates :
                 NotAfter(b, ParseIso(c)) =>
                    LET total_period == days_30_360(dc.start_arg, c)
                    IN  /\ dc.result.val <= total_period
                        /\ total_period # 0 =>
                             LET f == AccruedFraction(dc.result.val, total_period)
                             IN  FLe(Zero, f) /\ FLe(f, One)

C26_Witness ==
    /\ DayCountReturned /\ InOrder
    /\ dc.start_arg = IsoString(<<2020, 3, 1>>)
    /\ dc.end_arg = IsoString(<<2020, 7, 1>>)
    /\ AccruedFraction(dc.result.val,
                       days_30_360(dc.start_arg, IsoString(<<2020, 9, 1>>)))
         = Norm(2, 3)

C26_ZeroCountWitness ==
    /\ DayCountReturned /\ dc.result.val = 0
    /\ ParseIso(dc.start_arg) = <<2019, 7, 30>>
    /\ ParseIso(dc.end_arg) = <<2019, 7, 31>>


\* ---------------------------------------------------------------------
\* The margin account.

MarkedToMarket == "margin_deposit" \in mg.bound

LatestPrice ==
    IF "futures_price_day3" \in mg.bound THEN mg.futures_price_day3
    ELSE mg.futures_price_day2

BalanceFollowsLatestPrice ==
    MarkedToMarket =>
        mg.margin_deposit =
            mg.initial_deposit
              + (LatestPrice - mg.futures_price_day1)
                  * mg.bought_contracts * mg.contract_size

DailyMark ==
    (MarkedToMarket /\ mg'.margin_deposit # mg.margin_deposit) =>
        /\ "futures_price_day3" \in mg'.bound
        /\ mg'.margin_deposit - mg.margin_deposit =
             (mg'.futures_price_day3 - mg.futures_price_day2)
                * mg.bought_contracts * mg.contract_size

\* C27: each day's marking to market adds
\* (price_today - price_previous_day) * contracts * contract_size to the
\* balance, so the balance always equals
\* initial_deposit + (latest_price - day1_price) * contracts * contract_size,
\* whatever the intermediate prices were.
C27_BalanceTelescopes ==
    /\ []BalanceFollowsLatestPrice
    /\ [][mg.pc # "end" => DailyMark]_vars

C27_Witness ==
    /\ mg.pc = "check" /\ mg.bought_contracts = 2
    /\ mg.futures_price_day2 = 1741 /\ mg.futures_price_day3 = 1730
    /\ mg.margin_deposit = 8000

\* C28: cash is demanded exactly when the balance is strictly below the
\* maintenance margin, 0.75 * initial deposit; the cash demanded is
\* initial_deposit - balance, which brings the balance back to the initial
\* deposit and exceeds 0.25 * initial deposit; with the balance at or above
\* the maintenance margin no cash is demanded.
CashDemanded == "cash_to_add" \in mg.bound

C28_MarginCall ==
    mg.pc = "end" =>
        /\ 4 * mg.maintenance_margin[1] = 3 * mg.initial_deposit * mg.maintenance_margin[2]
        /\ CashDemanded <=> FLt(Whole(mg.margin_deposit), mg.maintenance_margin)
        /\ CashDemanded =>
             /\ mg.cash_to_add = mg.initial_deposit - mg.margin_deposit
             /\ mg.margin_deposit + mg.cash_to_add = mg.initial_deposit
             /\ 4 * mg.cash_to_add > mg.initial_deposit
             /\ mg.out[Len(mg.out)] = <<"cash to add to deposit", mg.cash_to_add>>
        /\ ~CashDemanded =>
             /\ FLe(mg.maintenance_margin, Whole(mg.margin_deposit))
             /\ \A k \in 1..Len(mg.out) : mg.out[k][1] # "cash to add to deposit"

C28_Witness ==
    /\ mg.pc = "end" /\ CashDemanded
    /\ mg.bought_contracts = 2 /\ mg.margin_deposit = 8000
    /\ mg.maintenance_margin = Whole(9000) /\ mg.cash_to_add = 4000

C28_NoCallAtTheMargin ==
    /\ mg.pc = "end" /\ ~CashDemanded
    /\ Whole(mg.margin_deposit) = mg.maintenance_margin

=============================================================================
